---------------------------- MODULE Spec2Model ----------------------------
(***************************************************************************)
(* Model of train_keypoints.py: the ClassDataset adapter (__init__,        *)
(* __getitem__, __len__) and the module-level training orchestrator.       *)
(*                                                                         *)
(* Data layout.  A box is <<x1, y1, x2, y2>>, a keypoint <<x, y, v>>, an   *)
(* object's keypoints <<kp1, kp2>>.  Python indices are 0-based, sequences *)
(* here are 1-based: Python's lst[i] is lst[i + 1] here.                   *)
(*                                                                         *)
(* Coordinates are floats in the annotation files.  They are held here in  *)
(* fixed point: the integer n stands for the coordinate n / Scale pixels,  *)
(* Scale a power of two, so 4097 is 2048.5 pixels when Scale is 2.  An     *)
(* area, a product of two sides, is held in units of 1 / Scale^2.          *)
(* Rounding to float32 keeps 24 significant bits whatever the power of two *)
(* a value is scaled by, so the float32 nearest to n / Scale is            *)
(* F32(n) / Scale, and float32 subtraction and multiplication of such      *)
(* values are F32 of the exact difference and product of the integers.     *)
(* Visibility flags are not coordinates and are held as they are.          *)
(***************************************************************************)
EXTENDS Integers, Sequences, FiniteSets, TLC

VARIABLES
    images_files,      \* self.images_files      (sorted listing of root/images)
    annotation_files,  \* self.annotation_files  (sorted listing of root/annotations)
    transform,         \* self.transform is set (TRUE) or None (FALSE)
    demo,              \* self.demo
    item,              \* outcome of the last __getitem__ call
    pc,                \* position of the module-level script
    epoch,             \* the name epoch of "for epoch in range(num_epochs)"
    range_next,        \* the value the iterator of range(num_epochs) yields next
    lr,                \* optimizer learning rate, in units of 1 / LrScale
    last_epoch,        \* lr_scheduler.last_epoch
    batches_left,      \* batches the running pass still has to fetch
    n_train_batches,   \* len(data_loader_train)
    n_test_batches,    \* len(data_loader_test)
    log,               \* events of the run, in order
    decays,            \* scheduler steps so far that changed the rate
    pass_rates         \* the rates the training batches so far have run at

dsvars == <<images_files, annotation_files, transform, demo, item>>
trvars == <<pc, epoch, range_next, lr, last_epoch, batches_left, n_train_batches,
            n_test_batches, log, decays, pass_rates>>
vars == <<images_files, annotation_files, transform, demo, item, pc, epoch,
          range_next, lr, last_epoch, batches_left, n_train_batches, n_test_batches, log,
          decays, pass_rates>>

---------------------------------------------------------------------------
(* Bounds of the model *)

MaxObjs == 2        \* objects (boxes, keypoint groups) per annotation
MaxFiles == 2       \* files per directory
ImgSize == 20       \* side of the (square) image, in pixels
MaxBatches == 3     \* batches per data loader
SubPixelBits == 1   \* binary digits of a coordinate after the point
MaxWarmup == 2      \* largest divisor a training pass may apply to the rate

\* coordinates are held in units of 1 / Scale pixels
Scale == 2 ^ SubPixelBits

---------------------------------------------------------------------------
(* torch.float32 *)

F32Digits == 16777216     \* 2^24: integers up to here are exact in float32

Abs(n) == IF n < 0 THEN -n ELSE n

RECURSIVE Ulp(_)
\* spacing of float32 values around the non-negative integer m
Ulp(m) == IF m < F32Digits THEN 1 ELSE 2 * Ulp(m \div 2)

\* round the non-negative integer m to a multiple of u, ties to the even multiple
RoundTiesEven(m, u) ==
    LET q == m \div u
        r == m % u
    IN  IF 2 * r < u THEN q * u
        ELSE IF 2 * r > u THEN (q + 1) * u
        ELSE IF q % 2 = 0 THEN q * u ELSE (q + 1) * u

\* the float32 value nearest to the integer n (dtype=torch.float32)
F32(n) ==
    LET m == Abs(n)
        v == RoundTiesEven(m, Ulp(m))
    IN  IF n < 0 THEN -v ELSE v

Representable(n) == F32(n) = n


---------------------------------------------------------------------------
(* Sequence helpers *)

Range(s) == {s[i] : i \in 1..Len(s)}

Min(S) == CHOOSE x \in S : \A y \in S : x <= y

RECURSIVE SortedSeq(_)
\* sorted(...): the elements of the finite set S in ascending order
SortedSeq(S) ==
    IF S = {} THEN <<>> ELSE <<Min(S)>> \o SortedSeq(S \ {Min(S)})

\* the elements of s at the positions in K, in their original order
Pick(s, K) == LET ks == SortedSeq(K) IN [j \in 1..Len(ks) |-> s[ks[j]]]

RECURSIVE Concat(_)
\* [el for sub in ss for el in sub]
Concat(ss) == IF ss = <<>> THEN <<>> ELSE Head(ss) \o Concat(Tail(ss))

---------------------------------------------------------------------------
(* Annotation files: the inputs of __getitem__ *)

\* box and keypoints of the o-th object of a scene of overlapping objects;
\* objects 1 and 2 are boxes [[0,0,10,10],[5,5,15,15]] with keypoints
\* [[[1,1,1],[2,2,1]],[[6,6,0],[7,7,1]]] (in pixels)
Box(o) ==
    LET b == Scale * 5 * (o - 1)
        s == Scale * 10
    IN  <<b, b, b + s, b + s>>
KpObj(o) ==
    LET b == Scale * 5 * (o - 1)
    IN  << <<b + Scale, b + Scale, o % 2>>, <<b + 2 * Scale, b + 2 * Scale, 1>> >>

\* json.load(f) of a file with nb boxes and nk keypoint groups
Annotation(nb, nk) ==
    [bboxes |-> [o \in 1..nb |-> Box(o)], keypoints |-> [o \in 1..nk |-> KpObj(o)]]

\* fractional coordinates inside the image: with Scale = 2 the box
\* [0.5, 1.0, 3.5, 2.5], of area 4.5, with keypoints (1.5, 2.0) and (3.0, 1.5)
FractionalAnnotation ==
    [bboxes |-> << <<1, 2, 7, 5>> >>,
     keypoints |-> << << <<3, 4, 0>>, <<6, 3, 1>> >> >>]

\* values float32 cannot hold: with Scale = 2 the box [0, 0, 2048.5, 2048.5],
\* whose sides are exact in float32 and whose area 4196352.25 is not, and the
\* keypoint coordinate 8388608.5; the second object is fractional
LargeAnnotation ==
    [bboxes |-> << <<0, 0, 4097, 4097>>, <<1, 2, 7, 5>> >>,
     keypoints |-> << << <<16777217, 3, 1>>, <<2, 2, 0>> >>,
                      << <<3, 4, 0>>, <<6, 3, 1>> >> >>]

\* a box with x_min > x_max: [10, 0, 0, 10]
MalformedAnnotation ==
    [bboxes |-> << <<Scale * 10, 0, 0, Scale * 10>>, Box(1) >>,
     keypoints |-> << KpObj(2), KpObj(1) >>]

AnnotationSet ==
    {Annotation(nb, nk) : nb \in 0..MaxObjs, nk \in 0..MaxObjs}
        \cup {FractionalAnnotation, LargeAnnotation, MalformedAnnotation}

\* the annotation is valid: as many keypoint groups as boxes
CountsMatch(data) == Len(data.keypoints) = Len(data.bboxes)

---------------------------------------------------------------------------
(* The augmentation pipeline returned by train_transform() *)

RotFactors == 0..3      \* RandomRotate90: rotate by 90 degrees 0 to 3 times

\* a point <<x, y>> after f rotations of the image by 90 degrees
RotKp(p, f) ==
    LET m == Scale * (ImgSize - 1) IN
    CASE f = 0 -> p
      [] f = 1 -> <<p[2], m - p[1]>>
      [] f = 2 -> <<m - p[1], m - p[2]>>
      [] f = 3 -> <<m - p[2], p[1]>>

\* a pascal_voc box after f rotations of the image by 90 degrees
RotBox(b, f) ==
    LET s == Scale * ImgSize IN
    CASE f = 0 -> b
      [] f = 1 -> <<b[2], s - b[3], b[4], s - b[1]>>
      [] f = 2 -> <<s - b[3], s - b[4], s - b[1], s - b[2]>>
      [] f = 3 -> <<s - b[4], b[1], s - b[2], b[3]>>

\* What self.transform(image=, bboxes=, bboxes_labels=, keypoints=) may return:
\* every box and point rotated by the same factor; the pipeline may filter
\* boxes and points out, keeping the others in order.  kept_boxes and
\* kept_keypoints record which inputs survived; __getitem__ never sees them.
TransformResults(bboxes, kps) ==
    {[bboxes |-> Pick([i \in 1..Len(bboxes) |-> RotBox(bboxes[i], f)], kb),
      keypoints |-> Pick([i \in 1..Len(kps) |-> RotKp(kps[i], f)], kk),
      rot |-> f,
      kept_boxes |-> SortedSeq(kb),
      kept_keypoints |-> SortedSeq(kk)] :
        f \in RotFactors, kb \in SUBSET (1..Len(bboxes)), kk \in SUBSET (1..Len(kps))}

NoTransform == [rot |-> 0, none |-> TRUE]

---------------------------------------------------------------------------
(* ClassDataset.__getitem__, piece by piece *)

\* Flatten with the slice el[1:3]
Flatten_WrongSlice(keypoints_original) ==
    LET els == Concat(keypoints_original)
    IN  [i \in 1..Len(els) |-> SubSeq(els[i], 2, 3)]

\* line 64: [el[0:2] for kp in keypoints_original for el in kp]
Flatten(keypoints_original) ==
    LET els == Concat(keypoints_original)
    IN  [i \in 1..Len(els) |-> SubSeq(els[i], 1, 2)]

\* line 79: np.reshape(np.array(kps), (-1, 2, 2)) raises ValueError unless the
\* number of scalars is a multiple of 2 * 2
ReshapeOk(kps) == Len(Concat(kps)) % 4 = 0

\* line 79: np.reshape(np.array(kps), (-1, 2, 2)).tolist()
Reshape22(kps) ==
    LET s == Concat(kps)
    IN  [j \in 1..(Len(s) \div 4) |->
            << <<s[4 * j - 3], s[4 * j - 2]>>, <<s[4 * j - 1], s[4 * j]>> >>]

\* lines 84-90 index keypoints_original[o_idx][k_idx][2]: IndexError unless
\* every transformed group has an original group at its position
AttachOk(unflattened, keypoints_original) ==
    Len(unflattened) <= Len(keypoints_original)

\* lines 83-90: kp + [keypoints_original[o_idx][k_idx][2]]
AttachVisibility(unflattened, keypoints_original) ==
    [o \in 1..Len(unflattened) |->
        [k \in 1..2 |-> unflattened[o][k] \o <<keypoints_original[o][k][3]>>]]

\* torch.as_tensor(bboxes, dtype=torch.float32)
BoxesTensor(bboxes) ==
    [i \in 1..Len(bboxes) |-> [c \in 1..4 |-> F32(bboxes[i][c])]]

\* KeypointsTensor of the [x, y] part only
KeypointsTensor_DropVisibility(keypoints) ==
    [o \in 1..Len(keypoints) |->
        [k \in 1..Len(keypoints[o]) |-> [c \in 1..2 |-> F32(keypoints[o][k][c])]]]

\* torch.as_tensor(keypoints, dtype=torch.float32)
KeypointsTensor(keypoints) ==
    [o \in 1..Len(keypoints) |->
        [k \in 1..Len(keypoints[o]) |-> [c \in 1..3 |-> F32(keypoints[o][k][c])]]]

\* Area with the two lower corners' coordinates exchanged
Area_SwappedCorner(b) == F32(F32(b[4] - b[1]) * F32(b[3] - b[2]))

\* lines 100, 111: (b[3] - b[1]) * (b[2] - b[0]) on a row of the float32 tensor
Area(b) == F32(F32(b[4] - b[2]) * F32(b[3] - b[1]))

\* BuildTarget with one label per keypoint group instead of per box
BuildTarget_LabelPerKeypointGroup(bboxes, keypoints, idx) ==
    LET boxes == BoxesTensor(bboxes) IN
    [boxes |-> boxes,
     labels |-> [i \in 1..Len(keypoints) |-> 1],
     image_id |-> <<idx>>,
     area |-> [i \in 1..Len(boxes) |-> F32(F32(boxes[i][4] - boxes[i][2])
                                            * F32(boxes[i][3] - boxes[i][1]))],
     isCrowed |-> [i \in 1..Len(boxes) |-> 0],
     keypoints |-> KeypointsTensor(keypoints)]

\* lines 95-102 and 105-114: the target dictionary
BuildTarget(bboxes, keypoints, idx) ==
    LET boxes == BoxesTensor(bboxes) IN
    [boxes |-> boxes,
     labels |-> [i \in 1..Len(boxes) |-> 1],
     image_id |-> <<idx>>,
     area |-> [i \in 1..Len(boxes) |-> Area(boxes[i])],
     isCrowed |-> [i \in 1..Len(boxes) |-> 0],
     keypoints |-> KeypointsTensor(keypoints)]

\* lines 100, 111: bboxes[:, 3] on the 1-dimensional tensor of an empty list
\* raises IndexError
AreaOk(bboxes) == Len(bboxes) > 0

\* lines 117-120: the targets of the returned tuple
Returned(target, target_original) ==
    IF demo THEN <<target, target_original>> ELSE <<target>>

\* an exception raised after the annotation was loaded propagates to the caller
Raised(error, idx, data, transformed) ==
    [status |-> error,
     idx |-> idx,
     img_file |-> images_files[idx + 1],
     ann_file |-> annotation_files[idx + 1],
     data |-> data,
     transformed |-> transformed]

\* lines 63-120 once the annotation is loaded; transformed is what
\* self.transform returned (NoTransform when self.transform is None)
GetItem(idx, data, transformed) ==
    LET bboxes_original == data.bboxes
        keypoints_original == data.keypoints
    IN
    IF transform /\ ~ReshapeOk(transformed.keypoints)
    THEN Raised("ValueError", idx, data, transformed)
    ELSE IF transform
            /\ ~AttachOk(Reshape22(transformed.keypoints), keypoints_original)
    THEN Raised("IndexError", idx, data, transformed)
    ELSE
    LET bboxes == IF transform THEN transformed.bboxes ELSE bboxes_original
        keypoints ==
            IF transform
            THEN AttachVisibility(Reshape22(transformed.keypoints), keypoints_original)
            ELSE keypoints_original
    IN
    IF ~AreaOk(bboxes) \/ ~AreaOk(bboxes_original)
    THEN Raised("IndexError", idx, data, transformed)
    ELSE
    [status |-> "returned",
     idx |-> idx,
     img_file |-> images_files[idx + 1],
     ann_file |-> annotation_files[idx + 1],
     data |-> data,
     transformed |-> transformed,
     returned |-> Returned(BuildTarget(bboxes, keypoints, idx),
                           BuildTarget(bboxes_original, keypoints_original, idx))]

\* no call has been made, or the caller has taken the last outcome
NoCall == [status |-> "none"]

\* line 123: __len__
DatasetLen == Len(images_files)

\* line 46: self.annotation_files[idx] raises IndexError past the listing
AnnotationExists(idx) == idx < Len(annotation_files)

\* lines 45-46 when the annotation listing is too short
NoAnnotation(idx) ==
    [status |-> "IndexError", idx |-> idx, img_file |-> images_files[idx + 1]]

\* __getitem__(idx) with a transform configured, idx drawn by a sampler
\* from range(len(dataset))
GetItemTransformed ==
    /\ transform
    /\ item = NoCall
    /\ \E idx \in 0..(DatasetLen - 1) :
          IF ~AnnotationExists(idx)
          THEN item' = NoAnnotation(idx)
          ELSE \E data \in AnnotationSet :
                 \E transformed \in TransformResults(data.bboxes, Flatten(data.keypoints)) :
                    item' = GetItem(idx, data, transformed)
    /\ UNCHANGED <<images_files, annotation_files, transform, demo>>
    /\ UNCHANGED trvars

\* __getitem__(idx) with transform=None
GetItemPlain ==
    /\ ~transform
    /\ item = NoCall
    /\ \E idx \in 0..(DatasetLen - 1) :
          IF ~AnnotationExists(idx)
          THEN item' = NoAnnotation(idx)
          ELSE \E data \in AnnotationSet :
                    item' = GetItem(idx, data, NoTransform)
    /\ UNCHANGED <<images_files, annotation_files, transform, demo>>
    /\ UNCHANGED trvars

\* the caller takes the outcome (the tensors are not kept by the dataset);
\* the dataset can then be indexed again
Release ==
    /\ item # NoCall
    /\ item' = NoCall
    /\ UNCHANGED <<images_files, annotation_files, transform, demo>>
    /\ UNCHANGED trvars

\* os.listdir: any set of names 1..MaxFiles, listed in any order
FileNames == 1..MaxFiles

\* the name epoch before the for statement binds it (it holds no value; the
\* model never reads it there)
Unbound == 0 - 1

\* the script before it constructs anything
ScriptStart ==
    /\ pc = "start"
    /\ epoch = Unbound
    /\ range_next = 0
    /\ lr = 0
    /\ last_epoch = 0
    /\ batches_left = 0
    /\ n_train_batches = 0
    /\ n_test_batches = 0
    /\ log = <<>>
    /\ decays = 0
    /\ pass_rates = {}

\* lines 37-42: ClassDataset.__init__
DatasetInit ==
    /\ \E imgs \in SUBSET FileNames : images_files = SortedSeq(imgs)
    /\ \E anns \in SUBSET FileNames : annotation_files = SortedSeq(anns)
    /\ transform \in BOOLEAN
    /\ demo \in BOOLEAN
    /\ item = NoCall

Init == DatasetInit /\ ScriptStart

Next == GetItemTransformed \/ GetItemPlain \/ Release

Spec == Init /\ [][Next]_vars

---------------------------------------------------------------------------
(* The module-level script: lines 126-131 and 213-238 *)

num_epochs == 5         \* line 230
step_size == 5          \* StepLR(step_size=5)
LrInit == 1000          \* SGD(lr=0.001), in units of 1 / LrScale
LrScale == 1000000
GammaNum == 3           \* StepLR(gamma=0.3) = GammaNum / GammaDen
GammaDen == 10

\* no ClassDataset is followed through the script: its batches are fetched by
\* the data loaders, and a fetch either delivers a batch or raises
NoDataset ==
    /\ images_files = <<>>
    /\ annotation_files = <<>>
    /\ transform = FALSE
    /\ demo = FALSE
    /\ item = NoCall

\* the script starts; the directories decide the loaders' lengths.  A
\* shuffling DataLoader cannot be built over an empty dataset.
InitTrain ==
    /\ NoDataset
    /\ pc = "start"
    /\ epoch = Unbound
    /\ range_next = 0
    /\ lr = 0
    /\ last_epoch = 0
    /\ batches_left = 0
    /\ n_train_batches \in 1..MaxBatches
    /\ n_test_batches \in 0..MaxBatches
    /\ log = <<>>
    /\ decays = 0
    /\ pass_rates = {}

\* an uncaught exception ends the script
Crash ==
    /\ pc' = "crashed"
    /\ UNCHANGED <<epoch, range_next, lr, last_epoch, batches_left, n_train_batches,
                   n_test_batches, log, decays, pass_rates>>

\* lines 127-131: batch = next(iterator) on the demo dataset
DemoBatch ==
    /\ pc = "start"
    /\ \/ /\ pc' = "setup"
          /\ UNCHANGED <<epoch, range_next, lr, last_epoch, batches_left, n_train_batches,
                         n_test_batches, log, decays, pass_rates>>
       \/ Crash
    /\ UNCHANGED dsvars

\* lines 213-230: datasets, loaders, model, SGD(lr=0.001), StepLR, and the
\* iterator of range(num_epochs); os.listdir of a missing folder (lines
\* 218-219), or get_model (line 224), raises
Setup ==
    /\ pc = "setup"
    /\ \/ /\ lr' = LrInit
          /\ last_epoch' = 0
          /\ range_next' = 0
          /\ pc' = "loop"
          /\ UNCHANGED <<epoch, batches_left, n_train_batches, n_test_batches,
                         log, decays, pass_rates>>
       \/ Crash
    /\ UNCHANGED dsvars

\* line 232-233: the for statement binds epoch to the next value of the
\* range and the body calls train_one_epoch
TrainBegin ==
    /\ pc = "loop"
    /\ range_next < num_epochs
    /\ epoch' = range_next
    /\ range_next' = range_next + 1
    /\ pc' = "train"
    /\ batches_left' = n_train_batches
    /\ log' = Append(log, "train_begin")
    /\ UNCHANGED <<lr, last_epoch, n_train_batches, n_test_batches, decays, pass_rates>>
    /\ UNCHANGED dsvars

\* the rates a training pass may set on the optimizer it is handed: the
\* initial rate divided by 1 to MaxWarmup (a stand-in for "any rate")
PassRates == {LrInit \div d : d \in 1..MaxWarmup}

\* train_one_epoch(model, optimizer, ...): what the pass does with the
\* optimizer is not known.  One batch of the training loader is trained on
\* at the rate the pass leaves, or sets, on the optimizer; or the pass raises,
\* at any point.  The pass is not handed lr_scheduler and cannot step it.
TrainBatch ==
    /\ pc = "train"
    /\ \/ /\ batches_left > 0
          /\ batches_left' = batches_left - 1
          /\ \E r \in PassRates \cup {lr} :
                /\ lr' = r
                /\ pass_rates' = pass_rates \cup {r}
          /\ UNCHANGED <<pc, epoch, range_next, last_epoch, n_train_batches,
                         n_test_batches, log, decays>>
       \/ Crash
    /\ UNCHANGED dsvars

\* line 233: train_one_epoch returns
TrainEnd ==
    /\ pc = "train"
    /\ batches_left = 0
    /\ pc' = "step"
    /\ log' = Append(log, "train_end")
    /\ UNCHANGED <<epoch, range_next, lr, last_epoch, batches_left, n_train_batches,
                   n_test_batches, decays, pass_rates>>
    /\ UNCHANGED dsvars

\* StepLR that decays at every step
StepLR_EveryStep(rate, e) == (rate * GammaNum) \div GammaDen

\* StepLR.get_lr at scheduler epoch e: the rate is multiplied by gamma when
\* e is a positive multiple of step_size
StepLR(rate, e) ==
    IF e = 0 \/ e % step_size # 0 THEN rate ELSE (rate * GammaNum) \div GammaDen

\* line 234: lr_scheduler.step() sets the optimizer's rate from its current
\* rate; decays counts the steps that changed it
LrSchedulerStep ==
    /\ pc = "step"
    /\ last_epoch' = last_epoch + 1
    /\ lr' = StepLR(lr, last_epoch + 1)
    /\ decays' = IF StepLR(lr, last_epoch + 1) = lr THEN decays ELSE decays + 1
    /\ pc' = "evaluate"
    /\ log' = Append(log, "lr_step")
    /\ UNCHANGED <<epoch, range_next, batches_left, n_train_batches,
                   n_test_batches, pass_rates>>
    /\ UNCHANGED dsvars

\* line 235: the call of evaluate
EvalBegin ==
    /\ pc = "evaluate"
    /\ pc' = "eval"
    /\ batches_left' = n_test_batches
    /\ log' = Append(log, "eval_begin")
    /\ UNCHANGED <<epoch, range_next, lr, last_epoch, n_train_batches, n_test_batches, decays, pass_rates>>
    /\ UNCHANGED dsvars

\* evaluate(model, data_loader_test, device): one batch of the test loader
\* is evaluated, or the pass raises, at any point.  The pass is handed
\* neither the optimizer nor lr_scheduler.
EvalBatch ==
    /\ pc = "eval"
    /\ \/ /\ batches_left > 0
          /\ batches_left' = batches_left - 1
          /\ UNCHANGED <<pc, epoch, range_next, lr, last_epoch, n_train_batches,
                         n_test_batches, log, decays, pass_rates>>
       \/ Crash
    /\ UNCHANGED dsvars

\* line 235: evaluate returns; control is back at the for statement
EvalEnd ==
    /\ pc = "eval"
    /\ batches_left = 0
    /\ pc' = "loop"
    /\ log' = Append(log, "eval_end")
    /\ UNCHANGED <<epoch, range_next, lr, last_epoch, batches_left, n_train_batches,
                   n_test_batches, decays, pass_rates>>
    /\ UNCHANGED dsvars

\* SaveWeights placed inside the loop body: a save after any finished epoch
SaveWeights_InLoop ==
    /\ pc = "loop"
    /\ range_next >= 1
    /\ pc' = IF range_next >= num_epochs THEN "done" ELSE "loop"
    /\ log' = Append(log, "save")
    /\ UNCHANGED <<epoch, range_next, lr, last_epoch, batches_left, n_train_batches,
                   n_test_batches, decays, pass_rates>>
    /\ UNCHANGED dsvars

\* line 238, once the range is exhausted: torch.save(model.state_dict(), ...)
\* writes the file and the script ends, or raises
SaveWeights ==
    /\ pc = "loop"
    /\ range_next >= num_epochs
    /\ \/ /\ pc' = "done"
          /\ log' = Append(log, "save")
          /\ UNCHANGED <<epoch, range_next, lr, last_epoch, batches_left,
                         n_train_batches, n_test_batches, decays, pass_rates>>
       \/ Crash
    /\ UNCHANGED dsvars

NextTrain ==
    \/ DemoBatch
    \/ Setup
    \/ TrainBegin
    \/ TrainBatch
    \/ TrainEnd
    \/ LrSchedulerStep
    \/ EvalBegin
    \/ EvalBatch
    \/ EvalEnd
    \/ SaveWeights

SpecTrain == InitTrain /\ [][NextTrain]_vars

---------------------------------------------------------------------------
(* Properties of ClassDataset, checked under Spec *)

\* __getitem__ raised or returned after loading the annotation
Loaded == item.status \in {"returned", "ValueError", "IndexError"} /\ AnnotationExists(item.idx)
ReturnedOk == item.status = "returned"
\* the (transformed) target: element 1 of the returned tuple
Target == item.returned[1]
\* position of flat point number n (1-based) in the nested keypoint list
ObjOf(n) == ((n - 1) \div 2) + 1
PointOf(n) == ((n - 1) % 2) + 1

\* C1: with a transform, the visibility of every returned keypoint (o, k) is
\* the visibility of the raw annotation at (o, k), and that is the visibility
\* of the original point the returned coordinates came from, whatever the
\* transform returned (rotated, filtered).
C1_VisibilityStaysWithPoint ==
    (ReturnedOk /\ transform) =>
        \A o \in 1..Len(Target.keypoints) : \A k \in 1..2 :
            LET origin == item.transformed.kept_keypoints[2 * (o - 1) + k] IN
            /\ Target.keypoints[o][k][3] = item.data.keypoints[o][k][3]
            /\ Target.keypoints[o][k][3]
                   = item.data.keypoints[ObjOf(origin)][PointOf(origin)][3]

\* the positional half of C1 alone: the visibility at (o, k) is the raw
\* annotation's visibility at (o, k)
VisibilityByPosition ==
    (ReturnedOk /\ transform) =>
        \A o \in 1..Len(Target.keypoints) : \A k \in 1..2 :
            Target.keypoints[o][k][3] = item.data.keypoints[o][k][3]

\* C2 as stated: without a transform the target's boxes and keypoints are
\* the annotation's values, value for value and in the same order.
C2_ExactPassThrough ==
    (ReturnedOk /\ ~transform) =>
        /\ Target.boxes = item.data.bboxes
        /\ Target.keypoints = item.data.keypoints

\* C2 amended: without a transform the target holds, in the same order and
\* grouping, the float32 value nearest to each annotation value; the values
\* are identical wherever the annotation value is exactly representable.
C2_PassThroughAsFloat32 ==
    (ReturnedOk /\ ~transform) =>
        LET b == item.data.bboxes
            kp == item.data.keypoints
        IN
        /\ Len(Target.boxes) = Len(b)
        /\ \A i \in 1..Len(b) :
              /\ Len(Target.boxes[i]) = 4
              /\ \A c \in 1..4 :
                    /\ Target.boxes[i][c] = F32(b[i][c])
                    /\ Abs(b[i][c]) <= F32Digits => Target.boxes[i][c] = b[i][c]
        /\ Len(Target.keypoints) = Len(kp)
        /\ \A o \in 1..Len(kp) :
              /\ Len(Target.keypoints[o]) = Len(kp[o])
              /\ \A k \in 1..Len(kp[o]) :
                    /\ Len(Target.keypoints[o][k]) = 3
                    /\ \A c \in 1..3 :
                          /\ Target.keypoints[o][k][c] = F32(kp[o][k][c])
                          /\ Abs(kp[o][k][c]) <= F32Digits
                                => Target.keypoints[o][k][c] = kp[o][k][c]

\* a two-object annotation passed through without a transform
C2_Witness ==
    /\ ReturnedOk /\ ~transform
    /\ Len(item.data.bboxes) = 2
    /\ Len(item.data.keypoints) = 2
    /\ item.data.bboxes[1] # item.data.bboxes[2]

\* C3: flattening the keypoints of a valid annotation (N objects of 2 points)
\* to 2N [x, y] pairs and reshaping into groups of 2 gives N groups, group o
\* position k holding the [x, y] of object o, point k; so a transform that
\* returns the flat list as it got it leaves every point at its position.
C3_FlattenReshapeRoundTrip ==
    (Loaded /\ transform) =>
        LET kp == item.data.keypoints
            flat == Flatten(kp)
            back == Reshape22(flat)
        IN
        /\ Len(flat) = 2 * Len(kp)
        /\ \A n \in 1..Len(flat) : flat[n] = SubSeq(kp[ObjOf(n)][PointOf(n)], 1, 2)
        /\ ReshapeOk(flat)
        /\ Len(back) = Len(kp)
        /\ \A o \in 1..Len(kp) : \A k \in 1..2 :
              back[o][k] = <<kp[o][k][1], kp[o][k][2]>>
        /\ (ReturnedOk /\ item.transformed.rot = 0
                /\ Len(item.transformed.keypoints) = Len(flat)) =>
              /\ Len(Target.keypoints) = Len(kp)
              /\ \A o \in 1..Len(kp) : \A k \in 1..2 : \A c \in 1..2 :
                    Target.keypoints[o][k][c] = F32(kp[o][k][c])

\* a two-object annotation went through flatten, the transform and reshape
C3_Witness ==
    /\ ReturnedOk /\ transform
    /\ Len(item.data.keypoints) = 2
    /\ item.transformed.rot = 0
    /\ Len(item.transformed.keypoints) = 4

\* C4 as stated: area[i] is the product (x2 - x1) * (y2 - y1) of boxes[i],
\* and is non-negative for a well-formed box.
C4_ExactArea ==
    ReturnedOk =>
        \A t \in 1..Len(item.returned) :
            LET T == item.returned[t] IN
            /\ Len(T.area) = Len(T.boxes)
            /\ \A i \in 1..Len(T.boxes) :
                  LET b == T.boxes[i] IN
                  /\ T.area[i] = (b[3] - b[1]) * (b[4] - b[2])
                  /\ (b[1] <= b[3] /\ b[2] <= b[4]) => T.area[i] >= 0

\* C4 amended: area[i] is (x2 - x1) * (y2 - y1) of boxes[i] evaluated in
\* float32: the product itself whenever both sides and the product are
\* exactly representable in float32, and always a float32 value within half
\* a float32 spacing of the product of the float32 sides; it is non-negative
\* for a well-formed box.
C4_AreaInFloat32 ==
    ReturnedOk =>
        \A t \in 1..Len(item.returned) :
            LET T == item.returned[t] IN
            /\ Len(T.area) = Len(T.boxes)
            /\ \A i \in 1..Len(T.boxes) :
                  LET b == T.boxes[i]
                      w == b[3] - b[1]
                      h == b[4] - b[2]
                      p == F32(w) * F32(h)
                  IN
                  /\ (Representable(w) /\ Representable(h) /\ Representable(w * h))
                        => T.area[i] = w * h
                  /\ 2 * Abs(T.area[i] - p) <= Ulp(Abs(p))
                  /\ Representable(T.area[i])
                  /\ (b[1] <= b[3] /\ b[2] <= b[4]) => T.area[i] >= 0

\* magnitude alone does not make the area exact: the box [0, 0, 2048.5,
\* 2048.5] has sides and product below 2^24 and its float32 area is not the
\* product (this formula is violated)
AreaExactBelowF32Digits ==
    ReturnedOk =>
        \A t \in 1..Len(item.returned) : \A i \in 1..Len(item.returned[t].boxes) :
            LET b == item.returned[t].boxes[i]
                w == b[3] - b[1]
                h == b[4] - b[2]
            IN  (Abs(w) < Scale * F32Digits /\ Abs(h) < Scale * F32Digits
                     /\ Abs(w * h) < Scale * Scale * F32Digits)
                    => item.returned[t].area[i] = w * h

\* demo mode returned both targets of the fractional annotation, rotated
\* once inside the image: the boxes differ, both areas are 6 x 3 units
C4_Witness ==
    /\ ReturnedOk /\ demo /\ transform
    /\ item.data = FractionalAnnotation
    /\ item.transformed.rot = 1
    /\ Target.boxes # item.returned[2].boxes
    /\ \A c \in 1..4 : Target.boxes[1][c] \in 0..(Scale * ImgSize)
    /\ Target.area = <<18>>
    /\ item.returned[2].area = <<18>>

\* C5: in every returned target labels has one entry per returned box, all
\* 1; the crowd flag has one entry per returned box, all 0; image_id is the
\* single value idx.
C5_LabelsCrowdImageId ==
    ReturnedOk =>
        \A t \in 1..Len(item.returned) :
            LET T == item.returned[t] IN
            /\ Len(T.labels) = Len(T.boxes)
            /\ \A i \in 1..Len(T.labels) : T.labels[i] = 1
            /\ Len(T.isCrowed) = Len(T.boxes)
            /\ \A i \in 1..Len(T.isCrowed) : T.isCrowed[i] = 0
            /\ T.image_id = <<item.idx>>

\* index 1 returned a target with fewer boxes than the annotation has
C5_Witness ==
    /\ ReturnedOk /\ transform
    /\ item.idx = 1
    /\ Len(Target.boxes) = 1
    /\ Len(item.data.bboxes) = 2
    /\ Len(Target.keypoints) = 2

\* C7: an annotation whose keypoint groups and boxes differ in number makes
\* __getitem__ fail with DatasetError; no target is returned whose boxes and
\* keypoints describe different numbers of objects.
C7_CountMismatchIsDatasetError ==
    (Loaded /\ ~CountsMatch(item.data)) =>
        /\ item.status = "DatasetError"
        /\ ~ReturnedOk

\* C8: when the transform returns a number of boxes other than the number
\* passed in, keypoints unchanged in number, __getitem__ raises
\* DataInconsistency; no target is returned whose boxes (and labels) and
\* keypoint groups differ in number.
C8_BoxCountChangeIsDataInconsistency ==
    (Loaded /\ transform /\ CountsMatch(item.data)
        /\ Len(item.transformed.bboxes) # Len(item.data.bboxes)
        /\ Len(item.transformed.keypoints) = 2 * Len(item.data.keypoints)) =>
        /\ item.status = "DataInconsistency"
        /\ ~(ReturnedOk /\ Len(Target.boxes) # Len(Target.keypoints))

\* C9: __getitem__(idx), 0 <= idx < len(dataset), reads the idx-th image and
\* the idx-th annotation of the sorted listings, and every such idx has an
\* annotation.
C9_EveryIndexHasAnnotation ==
    item # NoCall =>
        /\ item.idx \in 0..(DatasetLen - 1)
        /\ item.img_file = images_files[item.idx + 1]
        /\ AnnotationExists(item.idx)
        /\ item.ann_file = annotation_files[item.idx + 1]

---------------------------------------------------------------------------
(* Properties of the training script, checked under SpecTrain *)

EpochEvents == <<"train_begin", "train_end", "lr_step", "eval_begin", "eval_end">>

RECURSIVE Repeat(_, _)
Repeat(s, n) == IF n = 0 THEN <<>> ELSE s \o Repeat(s, n - 1)

\* the events of a complete run
ExpectedLog == Repeat(EpochEvents, num_epochs) \o <<"save">>

IsPrefix(a, b) == Len(a) <= Len(b) /\ SubSeq(b, 1, Len(a)) = a

\* C6: the run is num_epochs repetitions of training pass, scheduler step,
\* evaluation pass, each finished before the next begins, followed by one
\* save after the last evaluation; nothing is saved earlier, a finished run
\* went through all of it, and nothing runs after the save.
C6_EpochOrderThenSave ==
    /\ IsPrefix(log, ExpectedLog)
    /\ ("save" \in Range(log)) <=> (pc = "done")
    /\ pc = "done" => /\ log = ExpectedLog
                      /\ range_next = num_epochs
                      /\ epoch = num_epochs - 1
                      /\ ~ENABLED NextTrain

\* the run finished
C6_Witness == pc = "done" /\ Len(log) = 5 * num_epochs + 1 /\ log[Len(log)] = "save"

\* lines 228-229 have run: the optimizer and its scheduler exist
OptimizerBuilt == lr > 0

RECURSIVE Decayed(_, _)
\* rate multiplied by gamma n times
Decayed(rate, n) ==
    IF n = 0 THEN rate ELSE (Decayed(rate, n - 1) * GammaNum) \div GammaDen

============================================================================
